---- MODULE Spec2Model ----
(***************************************************************************)
(* Model of the capture core of src/src/voice_recorder_advanced.py:        *)
(* class Recorder (the gate flags, the hand-off queue, the frames buffer,  *)
(* the audio stream) driven by two execution contexts:                     *)
(*   - the audio callback thread (Recorder._callback), which checks the    *)
(*     gate under the lock and then puts the block outside the lock;       *)
(*   - the consumer (Tk main loop) thread, which calls start, stop, pause, *)
(*     resume, collect_from_queue, get_combined and save_wav one at a      *)
(*     time.                                                               *)
(* Critical sections under Recorder.lock are single atomic steps.  The     *)
(* loops of collect_from_queue are modelled one iteration per step, so     *)
(* that callback puts interleave with a running drain.                     *)
(* sounddevice's stream.stop() (PortAudio Pa_StopStream) returns only once *)
(* the running callback has returned; a stop()/close() that raises is      *)
(* swallowed by the bare except and leaves self.stream = None just as a    *)
(* successful one does.                                                    *)
(***************************************************************************)
EXTENDS Integers, Sequences, FiniteSets, TLC

\* ---------- bounds of the model ----------
\* number of blocks the audio device hands to the callback in one run
MaxBlocks == 4
\* number of start() calls that pass the guard in one run
MaxStarts == 2
\* last reading of the wall clock, in seconds; the first is 1
MaxTime == 3
\* the threads that call the methods of one Recorder concurrently
Callers == {"t1", "t2"}

\* ---------- configuration ----------
\* samples in one block handed to the callback (blocksize=self.chunk, mono)
CHUNK_SIZE == 1024

VARIABLES
    recording,   \* Recorder.recording
    paused,      \* Recorder.paused
    stream,      \* Recorder.stream: "none", "opened" (constructed, not started), "active"
    q,           \* Recorder.q, oldest block first
    frames,      \* Recorder.frames
    cbPc,        \* position of the audio thread in _callback: "idle" or "put"
    cbBlock,     \* the block held by a callback that passed the gate (<<>> if none)
    uiPc,        \* position of the consumer thread: "idle", "stop_stream", "collect"
    moved,       \* local counter of collect_from_queue
    view,        \* the array last returned by get_combined
    wavFile,     \* the file at the path given to save_wav
    lastOp,      \* the operation that took the last step
    result,      \* what the last consumer call returned ("ok") or raised
    nextId,      \* history: number of the next block the device delivers
    epoch,       \* history: number of start() calls that passed the guard
    delivered,   \* history: every block handed to _callback, in order
    pushed,      \* history: every block _callback put into q, in order
    early,       \* history: the last consumer call returned at its guard
    drained,     \* history: blocks appended by the final drain of the last stop()
    mp3File,     \* the file at the path given to save_mp3
    tmpWav,      \* the temporary WAV file of save_mp3
    now,         \* time.time(), in whole seconds
    start_time,  \* VoiceRecorderApp.start_time (0 for None)
    elapsed_seconds, \* VoiceRecorderApp.elapsed_seconds
    btn,         \* which of the four capture buttons are enabled
    forwarded,   \* history: the blocks _update_ui handed to wave_deque, in order
    baseLen,     \* history: len(rec.frames) when the running _update_ui began
    startedAt,   \* history: the clock at the last start() that passed the guard
    tpc,         \* concurrent callers: the statement each caller thread is at
    lockOwner,   \* concurrent callers: who holds Recorder.lock ("free" if nobody)
    streams,     \* concurrent callers: state of every InputStream ever constructed
    ref,         \* concurrent callers: Recorder.stream as an index into streams (0 for None)
    cc           \* concurrent callers: the audio thread, its stream and its block

vars == <<recording, paused, stream, q, frames, cbPc, cbBlock, uiPc, moved,
          view, wavFile, lastOp, result, nextId, epoch, delivered, pushed,
          early, drained, mp3File, tmpWav, now, start_time, elapsed_seconds,
          btn, forwarded, baseLen, startedAt, tpc, lockOwner, streams, ref, cc>>

recVars == <<recording, paused, stream, q, frames>>
cbVars == <<cbPc, cbBlock>>
histVars == <<nextId, epoch, delivered, pushed>>
callVars == <<early, drained>>
outVars == <<view, wavFile>>
fileVars == <<mp3File, tmpWav>>
concVars == <<tpc, lockOwner, streams, ref, cc>>
appVars == <<now, start_time, elapsed_seconds, btn, forwarded, baseLen,
             startedAt>>
\* the variables no method of Recorder other than save_mp3 touches
extVars == <<fileVars, appVars, concVars>>

\* ---------- helpers ----------
\* CaptureState as the flags encode it; Idle and Stopped differ only in
\* whether a start() has ever passed the guard.
CaptureState ==
    IF recording THEN (IF paused THEN "Paused" ELSE "Recording")
    ELSE IF epoch = 0 THEN "Idle" ELSE "Stopped"

\* a path on disk: no file, a finished file holding data, or a file that was
\* opened for writing and never finished
NoFile == [exists |-> FALSE, complete |-> FALSE, data |-> <<>>]
FileOf(data) == [exists |-> TRUE, complete |-> TRUE, data |-> data]
PartialFile == [exists |-> TRUE, complete |-> FALSE, data |-> <<>>]

IsPrefix(s, t) ==
    /\ Len(s) <= Len(t)
    /\ \A i \in 1..Len(s) : s[i] = t[i]

RECURSIVE Ids(_)
Ids(s) == IF s = <<>> THEN <<>> ELSE <<Head(s).id>> \o Ids(Tail(s))

\* a get_combined that returns the first block instead of concatenating
get_combined_value_FirstBlock(fr) == IF fr = <<>> THEN <<>> ELSE <<fr[1].id>>

\* np.concatenate(self.frames, axis=0): a new array holding the samples of
\* the blocks in buffer order.  Every block has the same positive number of
\* samples (blocksize=self.chunk), which stay together and in order, so the
\* array is written as the sequence of the numbers of its blocks; it is
\* empty exactly when frames is.
get_combined_value(fr) == Ids(fr)

\* the number of samples of an array made of these blocks
SampleCount(fr) == Len(fr) * CHUNK_SIZE

Init ==
    /\ recording = FALSE
    /\ paused = FALSE
    /\ stream = "none"
    /\ q = <<>>
    /\ frames = <<>>
    /\ cbPc = "idle"
    /\ cbBlock = <<>>
    /\ uiPc = "idle"
    /\ moved = 0
    /\ view = <<>>
    /\ wavFile = NoFile
    /\ lastOp = "init"
    /\ result = "none"
    /\ nextId = 1
    /\ epoch = 0
    /\ delivered = <<>>
    /\ pushed = <<>>
    /\ early = FALSE
    /\ drained = 0
    /\ mp3File = NoFile
    /\ tmpWav = NoFile
    /\ now = 1
    /\ start_time = 0
    /\ elapsed_seconds = 0
    /\ btn = [start |-> TRUE, pause |-> FALSE, resume |-> FALSE, stop |-> FALSE]
    /\ forwarded = <<>>
    /\ baseLen = 0
    /\ startedAt = 0
    /\ tpc = [t \in Callers |-> "idle"]
    /\ lockOwner = "free"
    /\ streams = <<>>
    /\ ref = 0
    /\ cc = [pc |-> "idle", sid |-> 0, blk |-> <<>>]

\* ---------- audio callback thread ----------
\* a gate that forgets the paused flag
GateOpen_NoPauseCheck == recording

\* the gate of _callback, evaluated under the lock
GateOpen == recording /\ ~paused

\* _callback up to the end of the with-block: the device hands over block
\* nextId; the gate either discards it or lets the thread go on to the put.
\* The block is stamped with the state and the recording it arrives in; the
\* locked gate check is the instant of its delivery.
CbGate ==
    /\ stream = "active"
    /\ cbPc = "idle"
    /\ nextId <= MaxBlocks
    /\ LET b == [id |-> nextId, st |-> CaptureState, ep |-> epoch] IN
        /\ delivered' = Append(delivered, b)
        /\ IF GateOpen
              THEN /\ cbPc' = "put"
                   /\ cbBlock' = <<b>>
              ELSE /\ UNCHANGED cbVars
    /\ nextId' = nextId + 1
    /\ lastOp' = "cb_gate"
    /\ UNCHANGED <<recVars, uiPc, moved, outVars, result, epoch, pushed, callVars>>
    /\ UNCHANGED extVars

\* self.q.put(indata.copy()), outside the lock
CbPut ==
    /\ cbPc = "put"
    /\ q' = Append(q, cbBlock[1])
    /\ pushed' = Append(pushed, cbBlock[1])
    /\ cbPc' = "idle"
    /\ cbBlock' = <<>>
    /\ lastOp' = "cb_put"
    /\ UNCHANGED <<recording, paused, stream, frames, uiPc, moved, outVars,
                   result, nextId, epoch, delivered, callVars>>
    /\ UNCHANGED extVars

\* a queue that hands out the newest block first
QueueGet_Lifo(qq) == [item |-> qq[Len(qq)], rest |-> SubSeq(qq, 1, Len(qq) - 1)]

\* queue.Queue.get_nowait(): the oldest block and the rest of the queue
QueueGet(qq) == [item |-> Head(qq), rest |-> Tail(qq)]

\* ---------- consumer thread: Recorder.start ----------
\* Outcomes of opening the input device: sd.InputStream(...) raises,
\* stream.start() raises, or both succeed.
DeviceOutcomes == {"ok", "open_fails", "start_fails"}

\* a start() without its guard
StartReturnsEarly_Never == FALSE

\* the guard of start(): `if self.recording: return`
StartReturnsEarly == recording

\* start() when the guard returns early
Recorder_StartNoop ==
    /\ uiPc = "idle"
    /\ StartReturnsEarly
    /\ lastOp' = "start"
    /\ result' = "ok"
    /\ early' = TRUE
    /\ UNCHANGED <<recVars, cbVars, uiPc, moved, outVars, histVars, drained>>

\* start() past the guard: the locked reset, then the device is opened
Recorder_Start(dev) ==
    /\ uiPc = "idle"
    /\ ~StartReturnsEarly
    /\ epoch < MaxStarts
    /\ frames' = <<>>
    /\ recording' = TRUE
    /\ paused' = FALSE
    /\ epoch' = epoch + 1
    /\ stream' = CASE dev = "ok" -> "active"
                   [] dev = "open_fails" -> stream
                   [] dev = "start_fails" -> "opened"
    /\ result' = IF dev = "ok" THEN "ok" ELSE "PortAudioError"
    /\ lastOp' = "start"
    /\ early' = FALSE
    /\ UNCHANGED <<q, cbVars, uiPc, moved, outVars, nextId, delivered, pushed,
                   drained>>

\* ---------- consumer thread: Recorder.stop ----------
\* the guard of stop(): `if not self.recording: return`
StopReturnsEarly == ~recording

\* a stop() that runs its body again and rebuilds frames from the queue
StopNoop_Redrains ==
    /\ uiPc = "idle"
    /\ StopReturnsEarly
    /\ frames' = q
    /\ q' = <<>>
    /\ stream' = "none"
    /\ lastOp' = "stop"
    /\ result' = "ok"
    /\ early' = TRUE
    /\ UNCHANGED <<recording, paused, cbVars, uiPc, moved, outVars, histVars,
                   drained>>
    /\ UNCHANGED extVars

StopNoop ==
    /\ uiPc = "idle"
    /\ StopReturnsEarly
    /\ lastOp' = "stop"
    /\ result' = "ok"
    /\ early' = TRUE
    /\ UNCHANGED <<recVars, cbVars, uiPc, moved, outVars, histVars, drained>>
    /\ UNCHANGED extVars

\* a stop() that leaves the paused flag alone
Recorder_StopBegin_KeepsPaused ==
    /\ uiPc = "idle"
    /\ ~StopReturnsEarly
    /\ recording' = FALSE
    /\ uiPc' = "stop_stream"
    /\ lastOp' = "stop"
    /\ early' = FALSE
    /\ UNCHANGED <<paused, stream, q, frames, cbVars, moved, outVars, result,
                   histVars, drained>>

\* the locked section of stop()
Recorder_StopBegin ==
    /\ uiPc = "idle"
    /\ ~StopReturnsEarly
    /\ recording' = FALSE
    /\ paused' = FALSE
    /\ uiPc' = "stop_stream"
    /\ lastOp' = "stop"
    /\ early' = FALSE
    /\ UNCHANGED <<stream, q, frames, cbVars, moved, outVars, result, histVars,
                   drained>>

\* a stream stop that does not wait for the running callback
StreamStopReturns_NoWait == TRUE

\* self.stream.stop() returns only when no callback is running
StreamStopReturns == cbPc = "idle"

\* a final drain that rebuilds frames from the drained blocks
StopDrain_Replaces(fr, qq) == [frames |-> qq, q |-> <<>>]

\* a stop() without the final drain
StopDrain_Skipped(fr, qq) == [frames |-> fr, q |-> qq]

\* the final drain loop of stop(), `while not self.q.empty(): append(get_nowait())`;
\* no producer runs beside it, so it runs until the queue is empty
RECURSIVE StopDrain(_, _)
StopDrain(fr, qq) ==
    IF qq = <<>>
       THEN [frames |-> fr, q |-> qq]
       ELSE LET g == QueueGet(qq) IN StopDrain(Append(fr, g.item), g.rest)

\* the rest of stop(): stop and close the stream, drain the queue
Recorder_StopFinish ==
    /\ uiPc = "stop_stream"
    /\ (stream = "active" => StreamStopReturns)
    /\ stream' = "none"
    /\ LET d == StopDrain(frames, q) IN
        /\ frames' = d.frames
        /\ q' = d.q
        /\ drained' = Len(q) - Len(d.q)
    /\ uiPc' = "idle"
    /\ lastOp' = "stop"
    /\ result' = "ok"
    /\ UNCHANGED <<recording, paused, cbVars, moved, outVars, histVars, early>>

\* ---------- consumer thread: Recorder.pause / resume ----------
\* a pause() without `if self.recording`
Pause_NoGuard ==
    /\ uiPc = "idle"
    /\ paused' = TRUE
    /\ lastOp' = "pause"
    /\ result' = "ok"
    /\ early' = FALSE
    /\ UNCHANGED <<recording, stream, q, frames, cbVars, uiPc, moved,
                   outVars, histVars, drained>>
    /\ UNCHANGED extVars

Recorder_Pause ==
    /\ uiPc = "idle"
    /\ paused' = IF recording THEN TRUE ELSE paused
    /\ lastOp' = "pause"
    /\ result' = "ok"
    /\ early' = FALSE
    /\ UNCHANGED <<recording, stream, q, frames, cbVars, uiPc, moved,
                   outVars, histVars, drained>>

\* a resume() that starts the buffer afresh
Recorder_Resume_Resets ==
    /\ uiPc = "idle"
    /\ paused' = IF recording THEN FALSE ELSE paused
    /\ frames' = <<>>
    /\ lastOp' = "resume"
    /\ result' = "ok"
    /\ early' = FALSE
    /\ UNCHANGED <<recording, stream, q, cbVars, uiPc, moved,
                   outVars, histVars, drained>>

Recorder_Resume ==
    /\ uiPc = "idle"
    /\ paused' = IF recording THEN FALSE ELSE paused
    /\ lastOp' = "resume"
    /\ result' = "ok"
    /\ early' = FALSE
    /\ UNCHANGED <<recording, stream, q, frames, cbVars, uiPc, moved,
                   outVars, histVars, drained>>

\* ---------- consumer thread: Recorder.collect_from_queue ----------
\* a counter that is not reset by the call
MovedInit_Stale == moved

\* `moved = 0`
MovedInit == 0

Recorder_CollectBegin ==
    /\ uiPc = "idle"
    /\ uiPc' = "collect"
    /\ moved' = MovedInit
    /\ lastOp' = "collect"
    /\ early' = FALSE
    /\ UNCHANGED <<recVars, cbVars, outVars, result, histVars, drained>>

\* a loop that forgets to count
MovedNext_Forgets(m) == m

\* `moved += 1`
MovedNext(m) == m + 1

\* one iteration of the while loop
Recorder_CollectStep ==
    /\ uiPc = "collect"
    /\ q # <<>>
    /\ LET g == QueueGet(q) IN
        /\ frames' = Append(frames, g.item)
        /\ q' = g.rest
    /\ moved' = MovedNext(moved)
    /\ lastOp' = "collect"
    /\ UNCHANGED <<recording, paused, stream, cbVars, uiPc, outVars, result,
                   histVars, callVars>>

\* the loop test fails: return moved
Recorder_CollectReturn ==
    /\ uiPc = "collect"
    /\ q = <<>>
    /\ uiPc' = "idle"
    /\ lastOp' = "collect"
    /\ result' = "ok"
    /\ UNCHANGED <<recVars, cbVars, moved, outVars, histVars, callVars>>

\* ---------- consumer thread: snapshot and export ----------
GetCombined ==
    /\ uiPc = "idle"
    /\ view' = get_combined_value(frames)
    /\ lastOp' = "get_combined"
    /\ result' = "ok"
    /\ early' = FALSE
    /\ UNCHANGED <<recVars, cbVars, uiPc, moved, wavFile, histVars, drained>>
    /\ UNCHANGED extVars

\* a size test that never finds the array empty
NoAudio_Never(data) == FALSE

\* `if data.size == 0`
NoAudio(data) == Len(data) = 0

SaveWav ==
    /\ uiPc = "idle"
    /\ LET data == get_combined_value(frames) IN
        IF NoAudio(data)
           THEN /\ result' = "RuntimeError"
                /\ UNCHANGED wavFile
           ELSE /\ result' = "ok"
                /\ wavFile' = FileOf(data)
    /\ lastOp' = "save_wav"
    /\ early' = FALSE
    /\ UNCHANGED <<recVars, cbVars, uiPc, moved, view, histVars, drained>>
    /\ UNCHANGED extVars

\* Outcomes of audio.export(filepath, format="mp3"): the encoder succeeds, it
\* fails before the file at filepath is opened for writing, or it fails after
\* that, which leaves an unfinished file at filepath.
EncodeOutcomes == {"ok", "fails_before_open", "fails_after_open"}

\* what is at filepath after audio.export: save_mp3 hands filepath itself to
\* the encoder
ExportedTo(old, data, enc) ==
    CASE enc = "ok" -> FileOf(data)
      [] enc = "fails_before_open" -> old
      [] enc = "fails_after_open" -> PartialFile

SaveMp3(enc) ==
    /\ uiPc = "idle"
    /\ LET data == get_combined_value(frames) IN
        IF NoAudio(data)
           THEN /\ result' = "RuntimeError"
                /\ UNCHANGED fileVars
           ELSE \* the temporary WAV is written, then read by the encoder;
                \* os.unlink runs only when export returned
                /\ mp3File' = ExportedTo(mp3File, data, enc)
                /\ tmpWav' = IF enc = "ok" THEN NoFile ELSE FileOf(data)
                /\ result' = IF enc = "ok" THEN "ok" ELSE "CouldntEncodeError"
    /\ lastOp' = "save_mp3"
    /\ early' = FALSE
    /\ UNCHANGED <<recVars, cbVars, uiPc, moved, outVars, histVars, drained,
                   appVars, concVars>>

\* ---------- the methods of Recorder called on their own ----------
Start(dev) == Recorder_Start(dev) /\ UNCHANGED extVars
StartNoop == Recorder_StartNoop /\ UNCHANGED extVars
StopBegin == Recorder_StopBegin /\ UNCHANGED extVars
StopFinish == Recorder_StopFinish /\ UNCHANGED extVars
Pause == Recorder_Pause /\ UNCHANGED extVars
Resume == Recorder_Resume /\ UNCHANGED extVars
CollectBegin == Recorder_CollectBegin /\ UNCHANGED extVars
CollectStep == Recorder_CollectStep /\ UNCHANGED extVars
CollectReturn == Recorder_CollectReturn /\ UNCHANGED extVars

Next ==
    \/ CbGate
    \/ CbPut
    \/ StartNoop
    \/ \E dev \in DeviceOutcomes : Start(dev)
    \/ StopNoop
    \/ StopBegin
    \/ StopFinish
    \/ Pause
    \/ Resume
    \/ CollectBegin
    \/ CollectStep
    \/ CollectReturn
    \/ GetCombined
    \/ SaveWav

Spec == Init /\ [][Next]_vars

\* ---------- recording and exporting ----------
\* the capture methods together with both exports
NextExport ==
    \/ CbGate
    \/ CbPut
    \/ StartNoop
    \/ \E dev \in DeviceOutcomes : Start(dev)
    \/ StopNoop
    \/ StopBegin
    \/ StopFinish
    \/ Pause
    \/ Resume
    \/ CollectBegin
    \/ CollectStep
    \/ CollectReturn
    \/ SaveWav
    \/ \E enc \in EncodeOutcomes : SaveMp3(enc)

SpecExport == Init /\ [][NextExport]_vars

\* ---------- the application: button handlers and the UI tick ----------
\* the button states set by start_recording
BtnRecording == [start |-> FALSE, pause |-> TRUE, resume |-> FALSE, stop |-> TRUE]
\* the button states set by stop_recording
BtnStopped == [start |-> TRUE, pause |-> FALSE, resume |-> FALSE, stop |-> FALSE]

\* start_recording with rec.start() past its guard; when the device open
\* raises, the exception leaves the handler before start_time and the
\* buttons are set
StartRecording(dev) ==
    /\ btn.start
    /\ Recorder_Start(dev)
    /\ startedAt' = now
    /\ IF dev = "ok"
          THEN /\ start_time' = now
               /\ btn' = BtnRecording
          ELSE UNCHANGED <<start_time, btn>>
    /\ UNCHANGED <<fileVars, concVars, now, elapsed_seconds, forwarded, baseLen>>

\* start_recording with rec.start() returning at its guard
StartRecordingAgain ==
    /\ btn.start
    /\ Recorder_StartNoop
    /\ start_time' = now
    /\ btn' = BtnRecording
    /\ UNCHANGED <<fileVars, concVars, now, elapsed_seconds, forwarded, baseLen, startedAt>>

pause_recording ==
    /\ btn.pause
    /\ Recorder_Pause
    /\ btn' = [btn EXCEPT !.pause = FALSE, !.resume = TRUE]
    /\ UNCHANGED <<fileVars, concVars, now, start_time, elapsed_seconds, forwarded,
                   baseLen, startedAt>>

resume_recording ==
    /\ btn.resume
    /\ Recorder_Resume
    /\ btn' = [btn EXCEPT !.pause = TRUE, !.resume = FALSE]
    /\ UNCHANGED <<fileVars, concVars, now, start_time, elapsed_seconds, forwarded,
                   baseLen, startedAt>>

\* stop_recording up to the end of the locked section of rec.stop()
StopRecordingBegin ==
    /\ btn.stop
    /\ Recorder_StopBegin
    /\ UNCHANGED extVars

\* the rest of rec.stop(), then the buttons
StopRecordingFinish ==
    /\ Recorder_StopFinish
    /\ btn' = BtnStopped
    /\ UNCHANGED <<fileVars, concVars, now, start_time, elapsed_seconds, forwarded,
                   baseLen, startedAt>>

\* self.rec.frames[-moved:] as Python slices it
LastMoved(fr, n) ==
    SubSeq(fr, IF n >= Len(fr) THEN 1 ELSE Len(fr) - n + 1, Len(fr))

\* _update_ui: the call of rec.collect_from_queue() begins
UpdateUiBegin ==
    /\ Recorder_CollectBegin
    /\ baseLen' = Len(frames)
    /\ UNCHANGED <<fileVars, concVars, now, start_time, elapsed_seconds, btn, forwarded,
                   startedAt>>

UpdateUiStep ==
    /\ Recorder_CollectStep
    /\ UNCHANGED extVars

\* _update_ui from the return of collect_from_queue on: the new frames go
\* to wave_deque, the timer is refreshed while rec.recording is set
UpdateUiEnd ==
    /\ Recorder_CollectReturn
    /\ forwarded' = IF moved > 0
                       THEN forwarded \o Ids(LastMoved(frames, moved))
                       ELSE forwarded
    /\ elapsed_seconds' = IF recording /\ start_time # 0
                             THEN now - start_time
                             ELSE elapsed_seconds
    /\ UNCHANGED <<fileVars, concVars, now, start_time, btn, baseLen, startedAt>>

\* the wall clock moves on
ClockTick ==
    /\ now < MaxTime
    /\ now' = now + 1
    /\ UNCHANGED <<recVars, cbVars, uiPc, moved, outVars, lastOp, result,
                   histVars, callVars, fileVars, concVars, start_time,
                   elapsed_seconds,
                   btn, forwarded, baseLen, startedAt>>

NextApp ==
    \/ CbGate
    \/ CbPut
    \/ \E dev \in DeviceOutcomes : StartRecording(dev)
    \/ StartRecordingAgain
    \/ pause_recording
    \/ resume_recording
    \/ StopRecordingBegin
    \/ StopRecordingFinish
    \/ UpdateUiBegin
    \/ UpdateUiStep
    \/ UpdateUiEnd
    \/ ClockTick

SpecApp == Init /\ [][NextApp]_vars

\* ---------- several threads calling one Recorder ----------
\* The methods of Recorder are run statement by statement by the threads in
\* Callers. Recorder.lock is held from the `with` to the end of its block;
\* everything after the block runs without it. Recorder.stream is `ref`, an
\* index into `streams`, the streams constructed so far. The device never
\* fails here, and one device callback runs at a time.
concRest == <<stream, cbVars, uiPc, moved, outVars, lastOp, result, delivered,
              pushed, callVars, fileVars, appVars>>

\* the streams that hold the input device
OpenStreams == {i \in 1..Len(streams) : streams[i] \in {"opened", "active"}}

\* the streams whose callback is being invoked by the device
ActiveStreams == {i \in 1..Len(streams) : streams[i] = "active"}

\* `with self.lock:` of start(), stop(), pause() or resume()
Conc_Acquire(t, op) ==
    /\ tpc[t] = "idle"
    /\ lockOwner = "free"
    /\ op = "start" => epoch < MaxStarts
    /\ lockOwner' = t
    /\ tpc' = [tpc EXCEPT ![t] = op \o "_locked"]
    /\ UNCHANGED <<recording, paused, q, frames, nextId, epoch, streams, ref,
                   cc, concRest>>

\* the with-block of start()
Conc_StartLocked(t) ==
    /\ tpc[t] = "start_locked"
    /\ lockOwner = t
    /\ lockOwner' = "free"
    /\ IF StartReturnsEarly
          THEN /\ tpc' = [tpc EXCEPT ![t] = "idle"]
               /\ UNCHANGED <<frames, recording, paused, epoch>>
          ELSE /\ frames' = <<>>
               /\ recording' = TRUE
               /\ paused' = FALSE
               /\ epoch' = epoch + 1
               /\ tpc' = [tpc EXCEPT ![t] = "start_open"]
    /\ UNCHANGED <<q, nextId, streams, ref, cc, concRest>>

\* self.stream = sd.InputStream(...)
Conc_StartOpen(t) ==
    /\ tpc[t] = "start_open"
    /\ streams' = Append(streams, "opened")
    /\ ref' = Len(streams) + 1
    /\ tpc' = [tpc EXCEPT ![t] = "start_start"]
    /\ UNCHANGED <<recording, paused, q, frames, nextId, epoch, lockOwner, cc,
                   concRest>>

\* self.stream.start(): raises when self.stream is None by now or names a
\* stream that is closed or already running
Conc_StartStart(t) ==
    /\ tpc[t] = "start_start"
    /\ streams' = IF ref # 0 /\ streams[ref] \in {"opened", "stopped"}
                     THEN [streams EXCEPT ![ref] = "active"]
                     ELSE streams
    /\ tpc' = [tpc EXCEPT ![t] = "idle"]
    /\ UNCHANGED <<recording, paused, q, frames, nextId, epoch, lockOwner, ref,
                   cc, concRest>>

\* the with-block of stop()
Conc_StopLocked(t) ==
    /\ tpc[t] = "stop_locked"
    /\ lockOwner = t
    /\ lockOwner' = "free"
    /\ IF StopReturnsEarly
          THEN /\ tpc' = [tpc EXCEPT ![t] = "idle"]
               /\ UNCHANGED <<recording, paused>>
          ELSE /\ recording' = FALSE
               /\ paused' = FALSE
               /\ tpc' = [tpc EXCEPT ![t] = "stop_check"]
    /\ UNCHANGED <<q, frames, nextId, epoch, streams, ref, cc, concRest>>

\* `if self.stream:`
Conc_StopCheck(t) ==
    /\ tpc[t] = "stop_check"
    /\ tpc' = [tpc EXCEPT ![t] = IF ref # 0 THEN "stop_stop" ELSE "stop_drain"]
    /\ UNCHANGED <<recording, paused, q, frames, nextId, epoch, lockOwner,
                   streams, ref, cc, concRest>>

\* self.stream.stop(): returns when the callback of that stream is not
\* running; on None it raises into `except: pass`
Conc_StopStop(t) ==
    /\ tpc[t] = "stop_stop"
    /\ IF ref = 0
          THEN /\ tpc' = [tpc EXCEPT ![t] = "stop_none"]
               /\ UNCHANGED streams
          ELSE /\ ~(cc.pc # "idle" /\ cc.sid = ref)
               /\ streams' = IF streams[ref] = "active"
                                THEN [streams EXCEPT ![ref] = "stopped"]
                                ELSE streams
               /\ tpc' = [tpc EXCEPT ![t] = "stop_close"]
    /\ UNCHANGED <<recording, paused, q, frames, nextId, epoch, lockOwner, ref,
                   cc, concRest>>

\* self.stream.close(); on None it raises into `except: pass`
Conc_StopClose(t) ==
    /\ tpc[t] = "stop_close"
    /\ IF ref = 0
          THEN UNCHANGED streams
          ELSE /\ ~(cc.pc # "idle" /\ cc.sid = ref)
               /\ streams' = [streams EXCEPT ![ref] = "closed"]
    /\ tpc' = [tpc EXCEPT ![t] = "stop_none"]
    /\ UNCHANGED <<recording, paused, q, frames, nextId, epoch, lockOwner, ref,
                   cc, concRest>>

\* self.stream = None
Conc_StopNone(t) ==
    /\ tpc[t] = "stop_none"
    /\ ref' = 0
    /\ tpc' = [tpc EXCEPT ![t] = "stop_drain"]
    /\ UNCHANGED <<recording, paused, q, frames, nextId, epoch, lockOwner,
                   streams, cc, concRest>>

\* one turn of the drain loop of stop(); a callback may still be pushing
Conc_StopDrain(t) ==
    /\ tpc[t] = "stop_drain"
    /\ IF q = <<>>
          THEN /\ tpc' = [tpc EXCEPT ![t] = "idle"]
               /\ UNCHANGED <<q, frames>>
          ELSE /\ LET g == QueueGet(q) IN
                    /\ frames' = Append(frames, g.item)
                    /\ q' = g.rest
               /\ UNCHANGED tpc
    /\ UNCHANGED <<recording, paused, nextId, epoch, lockOwner, streams, ref,
                   cc, concRest>>

\* the with-block of pause()
Conc_PauseLocked(t) ==
    /\ tpc[t] = "pause_locked"
    /\ lockOwner = t
    /\ lockOwner' = "free"
    /\ paused' = IF recording THEN TRUE ELSE paused
    /\ tpc' = [tpc EXCEPT ![t] = "idle"]
    /\ UNCHANGED <<recording, q, frames, nextId, epoch, streams, ref, cc,
                   concRest>>

\* the with-block of resume()
Conc_ResumeLocked(t) ==
    /\ tpc[t] = "resume_locked"
    /\ lockOwner = t
    /\ lockOwner' = "free"
    /\ paused' = IF recording THEN FALSE ELSE paused
    /\ tpc' = [tpc EXCEPT ![t] = "idle"]
    /\ UNCHANGED <<recording, q, frames, nextId, epoch, streams, ref, cc,
                   concRest>>

\* the device invokes _callback of a running stream; the thread arrives at
\* `with self.lock:`
Conc_CbEnter(sid) ==
    /\ cc.pc = "idle"
    /\ sid \in ActiveStreams
    /\ nextId <= MaxBlocks
    /\ cc' = [pc |-> "want_lock", sid |-> sid, blk |-> <<>>]
    /\ UNCHANGED <<recording, paused, q, frames, nextId, epoch, tpc, lockOwner,
                   streams, ref, concRest>>

\* the callback thread gets the lock
Conc_CbAcquire ==
    /\ cc.pc = "want_lock"
    /\ lockOwner = "free"
    /\ lockOwner' = "callback"
    /\ cc' = [cc EXCEPT !.pc = "locked"]
    /\ UNCHANGED <<recording, paused, q, frames, nextId, epoch, tpc, streams,
                   ref, concRest>>

\* the with-block of _callback
Conc_CbGate ==
    /\ cc.pc = "locked"
    /\ lockOwner = "callback"
    /\ lockOwner' = "free"
    /\ LET b == [id |-> nextId, st |-> CaptureState, ep |-> epoch] IN
        cc' = IF GateOpen
                 THEN [cc EXCEPT !.pc = "put", !.blk = <<b>>]
                 ELSE [pc |-> "idle", sid |-> 0, blk |-> <<>>]
    /\ nextId' = nextId + 1
    /\ UNCHANGED <<recording, paused, q, frames, epoch, tpc, streams, ref,
                   concRest>>

\* self.q.put(indata.copy())
Conc_CbPut ==
    /\ cc.pc = "put"
    /\ q' = Append(q, cc.blk[1])
    /\ cc' = [pc |-> "idle", sid |-> 0, blk |-> <<>>]
    /\ UNCHANGED <<recording, paused, frames, nextId, epoch, tpc, lockOwner,
                   streams, ref, concRest>>

NextConc ==
    \/ \E t \in Callers : \E op \in {"start", "stop", "pause", "resume"} :
          Conc_Acquire(t, op)
    \/ \E t \in Callers : Conc_StartLocked(t)
    \/ \E t \in Callers : Conc_StartOpen(t)
    \/ \E t \in Callers : Conc_StartStart(t)
    \/ \E t \in Callers : Conc_StopLocked(t)
    \/ \E t \in Callers : Conc_StopCheck(t)
    \/ \E t \in Callers : Conc_StopStop(t)
    \/ \E t \in Callers : Conc_StopClose(t)
    \/ \E t \in Callers : Conc_StopNone(t)
    \/ \E t \in Callers : Conc_StopDrain(t)
    \/ \E t \in Callers : Conc_PauseLocked(t)
    \/ \E t \in Callers : Conc_ResumeLocked(t)
    \/ \E sid \in 1..MaxStarts : Conc_CbEnter(sid)
    \/ Conc_CbAcquire
    \/ Conc_CbGate
    \/ Conc_CbPut

SpecConc == Init /\ [][NextConc]_vars

\* ---------- history helpers ----------
InEpoch(b) == b.ep = epoch
RecordedNow(b) == b.ep = epoch /\ b.st = "Recording"
Range(s) == {s[i] : i \in 1..Len(s)}
\* the blocks that passed the gate: put already, or held by the callback
PassedGate == pushed \o cbBlock
\* the frames flags other than the buffer
StateVars == <<recording, paused, stream>>

\* ---------- C1 ----------
\* C1 (as claimed): no step that leaves the state Paused, Idle or Stopped
\* (so neither start() nor the final drain of a running stop()) changes
\* frames; in particular the pump appends nothing while Paused.
C1_BufferFrozenOutsideRecording ==
    [][(/\ CaptureState' = CaptureState
        /\ CaptureState \in {"Paused", "Idle", "Stopped"}
        /\ uiPc # "stop_stream") => frames' = frames]_vars

\* ---------- C2 ----------
\* C2 (as claimed): a start() that raises because the device cannot be
\* opened or started leaves the state what it was, and not Recording.
C2_FailedStartLeavesState ==
    [][(lastOp' = "start" /\ result' = "PortAudioError") =>
          (CaptureState' = CaptureState /\ CaptureState' # "Recording")]_vars

\* ---------- C3 ----------
\* C3 (as claimed): start() in Recording or Paused fails with
\* AlreadyRecording and leaves buffer, queue, state and stream untouched.
C3_SecondStartFailsAlreadyRecording ==
    [][(lastOp' = "start" /\ CaptureState \in {"Recording", "Paused"}) =>
          (/\ result' = "AlreadyRecording"
           /\ UNCHANGED <<frames, q, StateVars>>)]_vars

\* C3 (amended): start() in Recording or Paused returns at its guard
\* without raising anything, and leaves buffer, queue, state and stream
\* untouched.
C3_SecondStartIsSilentNoop ==
    [][(lastOp' = "start" /\ CaptureState \in {"Recording", "Paused"}) =>
          (/\ result' = "ok"
           /\ early'
           /\ CaptureState' = CaptureState
           /\ UNCHANGED <<frames, q, StateVars>>)]_vars

\* a second start() has returned while a recording with a non-empty buffer,
\* a non-empty queue and a live stream is paused
C3_Witness ==
    /\ lastOp = "start"
    /\ early
    /\ CaptureState = "Paused"
    /\ frames # <<>>
    /\ q # <<>>
    /\ stream = "active"

\* ---------- C4 ----------
\* C4: when stop() has returned, frames is exactly the sequence of the
\* blocks delivered since the last start() while the state was Recording,
\* in arrival order; no block delivered while Paused is in it.
C4_StopYieldsRecordedBlocks ==
    (lastOp = "stop" /\ uiPc = "idle") =>
        frames = SelectSeq(delivered, RecordedNow)

\* stop() has returned after blocks were recorded, then a block was
\* delivered while Paused, then another block was recorded
C4_Witness ==
    /\ lastOp = "stop"
    /\ uiPc = "idle"
    /\ ~early
    /\ Len(frames) >= 3
    /\ \E i \in 1..Len(delivered) :
          /\ delivered[i].st = "Paused"
          /\ delivered[i].ep = epoch
          /\ frames[1].id < delivered[i].id
          /\ delivered[i].id < frames[Len(frames)].id

\* ---------- C5 ----------
\* C5: when stop() has returned, the queue is empty, no callback holds a
\* block, and every block that passed the gate since the last start() is in
\* frames.
C5_StopLeavesNothingBehind ==
    (lastOp = "stop" /\ uiPc = "idle") =>
        /\ q = <<>>
        /\ cbBlock = <<>>
        /\ \A i \in 1..Len(PassedGate) :
              InEpoch(PassedGate[i]) => PassedGate[i] \in Range(frames)

\* a stop() called in Paused has returned and its final drain appended blocks
C5_Witness ==
    /\ lastOp = "stop"
    /\ uiPc = "idle"
    /\ ~early
    /\ drained >= 2
    /\ \E i \in 1..Len(delivered) : delivered[i].st = "Paused"

\* ---------- C6 ----------
\* C6: frames never holds a block that the callback accepted before the
\* last start() that passed the guard.
C6_NoBlockAcrossStart ==
    \A i \in 1..Len(frames) : InEpoch(frames[i])

\* a second recording has blocks in its buffer after a first recording
\* whose callback pushed blocks
C6_Witness ==
    /\ epoch = 2
    /\ frames # <<>>
    /\ \E i \in 1..Len(pushed) : pushed[i].ep = 1

\* ---------- C7 ----------
\* C7: every step other than a start() that passes its guard leaves the old
\* frames as a prefix of the new frames.
C7_AppendOnly ==
    [][(lastOp' = "start" /\ ~early') \/ IsPrefix(frames, frames')]_vars

\* stop() has appended its final drain to a buffer the pump had grown, with
\* a snapshot and an export taken on the way
C7_Witness ==
    /\ lastOp = "stop"
    /\ ~early
    /\ drained >= 1
    /\ Len(frames) > drained
    /\ view # <<>>
    /\ wavFile.exists

\* ---------- C8 ----------
PushedNow == SelectSeq(pushed, InEpoch)

\* C8: frames followed by the queue is at all times the sequence of blocks
\* the callback pushed since the last start(), in push order, block numbers
\* strictly increasing; when a drain (pump or stop) has returned, frames is
\* that whole sequence.
C8_FifoOrder ==
    /\ frames \o q = PushedNow
    /\ \A i, j \in 1..Len(frames) : i < j => frames[i].id < frames[j].id
    /\ (uiPc = "idle" /\ lastOp \in {"collect", "stop"}) => frames = PushedNow

\* a pump has returned after moving two blocks behind an earlier drain
C8_Witness ==
    /\ lastOp = "collect"
    /\ uiPc = "idle"
    /\ moved >= 2
    /\ Len(frames) > moved

\* ---------- C9 ----------
Edges ==
    { <<"Idle", "start", "Recording">>,
      <<"Stopped", "start", "Recording">>,
      <<"Recording", "pause", "Paused">>,
      <<"Paused", "resume", "Recording">>,
      <<"Recording", "stop", "Stopped">>,
      <<"Paused", "stop", "Stopped">> }

\* C9: the state changes only along the edges above; pause() outside
\* Recording and resume() outside Paused change neither the flags, the
\* buffer, the queue nor the stream.
C9_StateEdges ==
    [][/\ CaptureState' # CaptureState =>
             <<CaptureState, lastOp', CaptureState'>> \in Edges
       /\ (lastOp' = "pause" /\ CaptureState # "Recording") =>
             UNCHANGED <<frames, q, StateVars>>
       /\ (lastOp' = "resume" /\ CaptureState # "Paused") =>
             UNCHANGED <<frames, q, StateVars>>]_vars

\* pause() has been called on a stopped recorder that holds a recording
C9_Witness ==
    /\ lastOp = "pause"
    /\ CaptureState = "Stopped"
    /\ frames # <<>>

\* ---------- C10 ----------
\* C10: stop() in Idle or Stopped returns normally and leaves the buffer,
\* the queue, the flags and the stream as they were.
C10_StopIdempotent ==
    [][(lastOp' = "stop" /\ uiPc = "idle"
            /\ CaptureState \in {"Idle", "Stopped"}) =>
          (/\ result' = "ok"
           /\ uiPc' = "idle"
           /\ CaptureState' = CaptureState
           /\ UNCHANGED <<frames, q, StateVars>>)]_vars

\* a further stop() has returned at its guard on a stopped recorder that
\* holds a recording
C10_Witness ==
    /\ lastOp = "stop"
    /\ early
    /\ CaptureState = "Stopped"
    /\ frames # <<>>

\* ---------- C11 ----------
\* C11: save_wav and save_mp3 called on an empty buffer raise the "No audio
\* to save" error and leave the target files and the temporary file as they
\* were, so no file comes into being.
C11_EmptyExportWritesNothing ==
    [][(lastOp' \in {"save_wav", "save_mp3"} /\ frames = <<>>) =>
          (/\ result' = "RuntimeError"
           /\ UNCHANGED <<wavFile, mp3File, tmpWav>>)]_vars

\* save_mp3 has failed on a recording that was started and stopped with no
\* block delivered, and no file exists
C11_Witness ==
    /\ lastOp = "save_mp3"
    /\ result = "RuntimeError"
    /\ CaptureState = "Stopped"
    /\ delivered = <<>>
    /\ wavFile = NoFile
    /\ mp3File = NoFile
    /\ tmpWav = NoFile

\* ---------- C12 ----------
\* C12 (as claimed): a save_mp3 whose encoding fails reports the failure and
\* leaves the requested output path as it was, with no unfinished file.
C12_FailedEncodeLeavesNoFile ==
    [][(lastOp' = "save_mp3" /\ result' = "CouldntEncodeError") =>
          (mp3File' = mp3File /\ mp3File' # PartialFile)]_vars

\* ---------- C13 ----------
\* C13: pause() and resume() change neither frames nor the queue, in any
\* state; so a pause() followed by a resume() leaves the buffer as it was.
C13_PauseResumeKeepBuffer ==
    [][lastOp' \in {"pause", "resume"} => UNCHANGED <<frames, q>>]_vars

\* pause() has taken effect on a recording with blocks in the buffer and in
\* the queue
C13_Witness ==
    /\ lastOp = "pause"
    /\ CaptureState = "Paused"
    /\ frames # <<>>
    /\ q # <<>>

\* ---------- C14 ----------
\* C14 (as claimed): the counter the pump returns starts at 0 and grows, with
\* every step of the call, by the number of samples the step appended.
C14_PumpCountsSamples ==
    [][lastOp' = "collect" =>
          IF uiPc = "idle"
             THEN moved' = 0 /\ frames' = frames
             ELSE moved' - moved = SampleCount(frames') - SampleCount(frames)]_vars

\* C14 (amended): the counter the pump returns starts at 0 and grows, with
\* every step of the call, by the number of blocks the step appended.
C14_PumpCountsBlocks ==
    [][lastOp' = "collect" =>
          IF uiPc = "idle"
             THEN moved' = 0 /\ frames' = frames
             ELSE moved' - moved = Len(frames') - Len(frames)]_vars

\* a pump has returned 2 after appending two blocks, 2048 samples
C14_Witness ==
    /\ lastOp = "collect"
    /\ uiPc = "idle"
    /\ moved = 2
    /\ Len(frames) = 2
    /\ SampleCount(frames) = 2048

\* ---------- C16 ----------
\* C16: get_combined returns the concatenation of the blocks in frames at
\* the time of the call and changes neither buffer, queue, flags nor stream;
\* no other step changes an array that was returned.
C16_SnapshotIsPointInTime ==
    [][/\ lastOp' = "get_combined" =>
             /\ view' = Ids(frames)
             /\ result' = "ok"
             /\ UNCHANGED <<frames, q, StateVars>>
       /\ lastOp' # "get_combined" => view' = view]_vars

\* an array returned during the first recording is still what it was while
\* the second recording has a different buffer
C16_Witness ==
    /\ epoch = 2
    /\ frames # <<>>
    /\ view # <<>>
    /\ view # Ids(frames)
    /\ \A i \in 1..Len(frames) : frames[i].id > view[Len(view)]

\* ---------- C19 ----------
\* C19: the paused flag is never set while the recording flag is clear.
C19_PausedImpliesRecording == paused => recording

\* stop() has cleared both flags right after a block was discarded at the
\* gate of a paused recorder
C19_Witness ==
    /\ lastOp = "stop"
    /\ uiPc = "stop_stream"
    /\ ~paused
    /\ ~recording
    /\ delivered # <<>>
    /\ delivered[Len(delivered)].st = "Paused"

\* ---------- C15 ----------
\* C15 (as claimed): a tick that ends in Recording or Paused sets the elapsed
\* time to the wall clock since the last start() that began a recording; a
\* tick that ends in Idle or Stopped leaves it as it was.
C15_ElapsedIsWallClockSinceStart ==
    [][(uiPc = "collect" /\ uiPc' = "idle") =>
          IF CaptureState \in {"Recording", "Paused"}
             THEN elapsed_seconds' = now - startedAt
             ELSE elapsed_seconds' = elapsed_seconds]_vars

\* ---------- C20 ----------
\* C20: the blocks a tick hands to the waveform are exactly the blocks its
\* collect_from_queue appended to frames, in order, and no block is ever
\* handed over twice.
C20_ForwardedAreAppended ==
    /\ [](\A i, j \in 1..Len(forwarded) : i < j => forwarded[i] # forwarded[j])
    /\ [][(uiPc = "collect" /\ uiPc' = "idle") =>
            forwarded' = forwarded \o Ids(SubSeq(frames, baseLen + 1, Len(frames)))]_vars

\* a tick of the second recording has handed blocks over after ticks of the
\* first recording did
C20_Witness ==
    /\ lastOp = "collect"
    /\ uiPc = "idle"
    /\ moved >= 1
    /\ epoch = 2
    /\ Len(forwarded) >= 3
    /\ Len(forwarded) > Len(frames)

\* C17: start(), stop(), pause() and resume() called concurrently are
\* serialized as whole operations: at most one stream holds the device at any
\* time, and once every call has returned a stream is running if and only if
\* the state is Recording or Paused.
C17_CallsSerializedAsWholeOperations ==
    /\ Cardinality(OpenStreams) <= 1
    /\ (\A t \in Callers : tpc[t] = "idle")
          => (ActiveStreams # {} <=> recording)

\* C18: the audio callback never waits on the mutex of start/pause/resume/
\* stop: in no reachable state is the callback thread at the lock while a
\* caller of one of these operations holds it.
C18_CallbackNeverWaitsOnMutex ==
    ~(cc.pc = "want_lock" /\ lockOwner \in Callers)

====
